---- MODULE Spec2Model ----
(***************************************************************************)
(* Model of rdumont/oaschecker: the OpenAPI conformance middleware          *)
(* (src/middleware.go) and the Checker facade (src/unnamed/part_000).       *)
(*                                                                         *)
(* Texts (error messages, descriptions, URIs) are sequences of tokens, so   *)
(* that fmt.Sprintf and strings.Join are concatenations whose parts can be  *)
(* inspected.  The router and the validation engine are kin-openapi; they   *)
(* are modelled on the pet store document of the test file.                 *)
(***************************************************************************)
EXTENDS Integers, Sequences, FiniteSets, Bags, TLC

\* ------------------------------------------------------------------ bounds
NumThreads == 2
MaxExchanges == 2
MaxOps == 3
MaxMiddlewares == 2

Threads == 1..NumThreads

\* ------------------------------------------------------------- text helpers
Sprintf1(prefix, v) == <<prefix>> \o v

RouteNotFoundPrefix == "Route not found in specification: "
InvalidRequestPrefix == "Invalid request: "
InvalidResponsePrefix == "Invalid response: "

ValidateHeader == "Errors were found validating the API specification:\n"
ValidateDelimiter == "\n---\n"

\* --------------------------------------------------------------- requests
JSON == "application/json"
SniffedType == "text/plain; charset=utf-8"
ContentType == "Content-Type"

Methods == {"GET", "POST"}
Hosts == {"http://petstore.swagger.io"}
Paths == {"/v1/pets", "/some-undocumented-path"}

URLs == [Host : Hosts, Path : Paths]

URLString(u) == <<u.Host, u.Path>>

Requests ==
    { [Method |-> m, URL |-> u, ContentType |-> ct,
       Body |-> IF m = "POST" THEN <<"pet">> ELSE <<>>] :
        m \in Methods, u \in URLs, ct \in {"", JSON} }

\* The requests of TestMiddleware_ServeHTTP.
TestRequests ==
    { r \in Requests :
        \/ r.Method = "GET" /\ r.ContentType = ""
        \/ r.Method = "POST" /\ r.URL.Path = "/v1/pets" }

NoRequest == [Method |-> "", URL |-> [Host |-> "", Path |-> ""],
              ContentType |-> "", Body |-> <<>>]

\* ---------------------------------------------------- router (kin-openapi)
\* The pet store document: one server, http://petstore.swagger.io/v1, and
\* the operations GET /pets and POST /pets.
ServerPaths == {"/v1/pets"}
Operations == {"GET", "POST"}

NoError == <<>>

FindRoute(method, url) ==
    IF url.Path \notin ServerPaths
    THEN [route |-> "", err |-> <<"Does not match any server">>]
    ELSE IF method \notin Operations
    THEN [route |-> "", err |-> <<"Path doesn't support the HTTP method">>]
    ELSE [route |-> method, err |-> NoError]

\* ------------------------------------------- validation engine (kin-openapi)
\* POST /pets has a required application/json request body.
ValidateRequest(r, route) ==
    IF route = "POST" /\ r.ContentType # JSON
    THEN <<"Request body has an error: header 'Content-Type' has unexpected value: ",
           r.ContentType>>
    ELSE NoError

\* Mutant: the engine reads the request body and does not put it back.
AfterValidateRequestDrained(r, rt) ==
    IF rt \in {"POST"} THEN [r EXCEPT !.Body = <<>>] ELSE r

\* The engine reads the body of an operation that has a requestBody and puts
\* the bytes it read back into the request.
RequestBodyOperations == {"POST"}

AfterValidateRequest(r, rt) ==
    IF rt \in RequestBodyOperations
    THEN LET data == r.Body
             drained == [r EXCEPT !.Body = <<>>]
         IN  [drained EXCEPT !.Body = data]
    ELSE r

\* GET /pets: 200 and default both carry application/json content.
\* POST /pets: 201 carries no content, default carries application/json.
ResponseHasContent(route, status) == ~(route = "POST" /\ status = 201)

HeaderGet(h, k) == IF k \in DOMAIN h THEN h[k] ELSE ""

ValidateResponse(route, status, header, body) ==
    IF ~ResponseHasContent(route, status) THEN NoError
    ELSE IF HeaderGet(header, ContentType) # JSON
    THEN <<"input header 'Content-Type' has unexpected value: ",
           HeaderGet(header, ContentType)>>
    ELSE NoError

\* ------------------------------------------------- handler programs (next)
\* A wrapped handler is a sequence of operations on its http.ResponseWriter.
SetHeaderOp == [op |-> "SetHeader", key |-> ContentType, val |-> JSON, code |-> 0]
WriteHeaderOp(c) == [op |-> "WriteHeader", key |-> "", val |-> "", code |-> c]
WriteOp == [op |-> "Write", key |-> "", val |-> "", code |-> 0]

Ops == {SetHeaderOp, WriteHeaderOp(200), WriteHeaderOp(201), WriteOp}

Programs == UNION { [1..n -> Ops] : n \in 0..MaxOps }

\* The handlers of TestMiddleware_ServeHTTP.
TestHandlers ==
    { <<SetHeaderOp, WriteHeaderOp(200), WriteOp>>,
      <<WriteHeaderOp(200)>>,
      <<WriteHeaderOp(200), WriteOp>> }

EmptyHeader == [k \in {} |-> ""]

HeaderSet(h, k, v) == [x \in DOMAIN h \cup {k} |-> IF x = k THEN v ELSE h[x]]

\* httptest.ResponseRecorder: HeaderMap stays live after WriteHeader.
NewRecorder == [HeaderMap |-> EmptyHeader, Code |-> 200, Body |-> <<>>,
                wroteHeader |-> FALSE]

RecorderWriteHeader(rec, c) ==
    IF rec.wroteHeader THEN rec
    ELSE [rec EXCEPT !.Code = c, !.wroteHeader = TRUE]

RecorderApply(rec, o) ==
    CASE o.op = "SetHeader" ->
            [rec EXCEPT !.HeaderMap = HeaderSet(rec.HeaderMap, o.key, o.val)]
      [] o.op = "WriteHeader" -> RecorderWriteHeader(rec, o.code)
      [] o.op = "Write" ->
            LET sniffed ==
                    IF ~rec.wroteHeader /\ ContentType \notin DOMAIN rec.HeaderMap
                    THEN [rec EXCEPT !.HeaderMap =
                              HeaderSet(rec.HeaderMap, ContentType, SniffedType)]
                    ELSE rec
                started == RecorderWriteHeader(sniffed, 200)
            IN  [started EXCEPT !.Body = started.Body \o <<"b">>]

\* The server's http.ResponseWriter: the headers sent are those present when
\* the status is written; a body without a Content-Type gets a sniffed one.
NewWriter == [Header |-> EmptyHeader, wroteHeader |-> FALSE, Status |-> 0,
              Sent |-> EmptyHeader, Body |-> <<>>]

WriterWriteHeader(w, c) ==
    IF w.wroteHeader THEN w
    ELSE [w EXCEPT !.wroteHeader = TRUE, !.Status = c, !.Sent = w.Header]

WriterWrite(w, bytes) ==
    LET started == WriterWriteHeader(w, 200)
        typed == IF Len(bytes) > 0 /\ Len(started.Body) = 0
                    /\ ContentType \notin DOMAIN started.Sent
                 THEN [started EXCEPT !.Sent =
                           HeaderSet(started.Sent, ContentType, SniffedType)]
                 ELSE started
    IN  [typed EXCEPT !.Body = typed.Body \o bytes]

WriterApply(w, o) ==
    CASE o.op = "SetHeader" ->
            [w EXCEPT !.Header = HeaderSet(w.Header, o.key, o.val)]
      [] o.op = "WriteHeader" -> WriterWriteHeader(w, o.code)
      [] o.op = "Write" -> WriterWrite(w, <<"b">>)

\* When the handler chain returns the server sends what is pending.
WriterFinish(w) == WriterWriteHeader(w, 200)

RECURSIVE RunOnRecorder(_, _)
RunOnRecorder(rec, prog) ==
    IF prog = <<>> THEN rec
    ELSE RunOnRecorder(RecorderApply(rec, Head(prog)), Tail(prog))

RECURSIVE RunOnWriter(_, _)
RunOnWriter(w, prog) ==
    IF prog = <<>> THEN w
    ELSE RunOnWriter(WriterApply(w, Head(prog)), Tail(prog))

\* What the caller receives from a writer once the exchange is over.
Received(w) == [Status |-> w.Status, Header |-> w.Sent, Body |-> w.Body]

\* What the wrapped handler produces for a caller talking to it directly.
Produced(prog) == Received(WriterFinish(RunOnWriter(NewWriter, prog)))

\* The request resolves to a documented operation and conforms to it.
RequestConforms(r) ==
    LET found == FindRoute(r.Method, r.URL)
    IN  found.err = NoError /\ ValidateRequest(r, found.route) = NoError

\* The response the handler produced conforms to the operation.
ResponseConforms(rt, res) ==
    ValidateResponse(rt, res.Status, res.Header, res.Body) = NoError

\* ------------------------------------------------------------------ state
VARIABLES
    issues,     \* Middleware.issues
    mu,         \* Middleware.mu: 0 when free, else the thread holding it
    pc,         \* where each thread stands in ServeHTTP / addIssue
    req,        \* r
    route,      \* route (of FindRoute)
    iss,        \* the validationIssue addIssue is appending
    ret,        \* where addIssue returns to
    tmp,        \* the slice append() read
    rec,        \* recorder
    rw,         \* rw
    ref,        \* what the wrapped handler produced (history)
    calls,      \* invocations of c.next.ServeHTTP in this exchange (history)
    added,      \* issues this exchange appended (history)
    handled,    \* exchanges begun (history)
    detected,   \* bag of every issue detected so far (history)
    clean,      \* every exchange so far resolved and conformed (history)
    vpc,        \* where the caller of Validate stands
    vlen,       \* len(descriptions)
    vrng,       \* the slice the range statement evaluated
    vi,         \* i
    vdesc,      \* descriptions
    vres,       \* the result of Validate
    hist,       \* per exchange: request as received, as the handler saw it, steps taken (history)
    vhist,      \* the log when Validate was called, its previous result and log (history)
    checker,    \* the Checker
    mws,        \* the Middlewares the Checker minted
    served      \* exchanges served through each minted Middleware (history)

vars == <<issues, mu, pc, req, route, iss, ret, tmp, rec, rw, ref, calls, added,
          handled, detected, clean, vpc, vlen, vrng, vi, vdesc, vres, hist, vhist,
          checker, mws, served>>

facadeVars == <<checker, mws, served>>
exchangeVars == <<req, route, rec, rw, ref, calls>>
validateVars == <<vpc, vlen, vrng, vi, vdesc, vres>>

NoIssue == [Method |-> "", URI |-> <<>>, Description |-> <<>>]
NoReceived == [Status |-> 0, Header |-> EmptyHeader, Body |-> <<>>]
NoResult == [kind |-> "none", text |-> <<>>]
NoHistory == [orig |-> NoRequest, seen |-> NoRequest, trace |-> <<>>]
NoValidateHistory == [log |-> <<>>, last |-> NoResult, lastLog |-> <<>>]

\* openapi3filter.NewRouter() with the document added: the resolver's content.
PetStoreRouter == [ServerPaths |-> ServerPaths, Operations |-> Operations]

Init ==
    /\ issues = <<>>
    /\ mu = 0
    /\ pc = [t \in Threads |-> "idle"]
    /\ req = [t \in Threads |-> NoRequest]
    /\ route = [t \in Threads |-> ""]
    /\ iss = [t \in Threads |-> NoIssue]
    /\ ret = [t \in Threads |-> ""]
    /\ tmp = [t \in Threads |-> <<>>]
    /\ rec = [t \in Threads |-> NewRecorder]
    /\ rw = [t \in Threads |-> NewWriter]
    /\ ref = [t \in Threads |-> NoReceived]
    /\ calls = [t \in Threads |-> 0]
    /\ added = [t \in Threads |-> <<>>]
    /\ handled = 0
    /\ detected = EmptyBag
    /\ clean = TRUE
    /\ vpc = "idle"
    /\ vlen = 0
    /\ vrng = <<>>
    /\ vi = 0
    /\ vdesc = <<>>
    /\ vres = NoResult
    /\ hist = [t \in Threads |-> NoHistory]
    /\ vhist = NoValidateHistory
    /\ checker = [router |-> PetStoreRouter]
    /\ mws = <<>>
    /\ served = <<>>

\* ------------------------------------------------------------- ServeHTTP
\* The exchange of thread t takes the step named label.
Step(t, label) == hist' = [hist EXCEPT ![t].trace = Append(@, label)]

\* c.next.ServeHTTP(..., r): the wrapped handler receives r as it is now.
Handle(t) ==
    hist' = [hist EXCEPT ![t].seen = req[t], ![t].trace = Append(@, "handler")]

\* The server hands a request and a fresh ResponseWriter to ServeHTTP.
Begin(t, reqs) ==
    /\ pc[t] = "idle"
    /\ handled < MaxExchanges
    /\ \E r \in reqs :
        /\ req' = [req EXCEPT ![t] = r]
        /\ hist' = [hist EXCEPT ![t] = [orig |-> r, seen |-> NoRequest, trace |-> <<>>]]
        /\ clean' = (clean /\ RequestConforms(r))
    /\ pc' = [pc EXCEPT ![t] = "findRoute"]
    /\ handled' = handled + 1
    /\ UNCHANGED <<vhist, facadeVars, issues, mu, route, iss, ret, tmp, rec, rw, ref, calls, added,
                   detected, validateVars>>

\* c.addIssue(r.Method, r.URL, description), returning to label back.
CallAddIssue(t, description, back) ==
    LET issue == [Method |-> req[t].Method, URI |-> URLString(req[t].URL),
                  Description |-> description]
    IN  /\ iss' = [iss EXCEPT ![t] = issue]
        /\ ret' = [ret EXCEPT ![t] = back]
        /\ detected' = detected (+) SetToBag({issue})
        /\ pc' = [pc EXCEPT ![t] = "lock"]

\* Mutant: after reporting the unknown route the code falls through to the
\* recording path instead of forwarding and returning.
FindRouteFallThrough(t) ==
    /\ pc[t] = "findRoute"
    /\ Step(t, "findRoute")
    /\ LET found == FindRoute(req[t].Method, req[t].URL)
       IN  IF found.err # NoError
           THEN /\ CallAddIssue(t, Sprintf1(RouteNotFoundPrefix, found.err), "call")
                /\ UNCHANGED route
           ELSE /\ route' = [route EXCEPT ![t] = found.route]
                /\ pc' = [pc EXCEPT ![t] = "validateRequest"]
                /\ UNCHANGED <<iss, ret, detected>>
    /\ UNCHANGED <<vhist, facadeVars, clean, issues, mu, req, tmp, rec, rw, ref, calls, added, handled,
                   validateVars>>

FindRouteStep(t) ==
    /\ pc[t] = "findRoute"
    /\ Step(t, "findRoute")
    /\ LET found == FindRoute(req[t].Method, req[t].URL)
       IN  IF found.err # NoError
           THEN /\ CallAddIssue(t, Sprintf1(RouteNotFoundPrefix, found.err), "forward")
                /\ UNCHANGED route
           ELSE /\ route' = [route EXCEPT ![t] = found.route]
                /\ pc' = [pc EXCEPT ![t] = "validateRequest"]
                /\ UNCHANGED <<iss, ret, detected>>
    /\ UNCHANGED <<vhist, facadeVars, clean, issues, mu, req, tmp, rec, rw, ref, calls, added, handled,
                   validateVars>>

\* Mutant: an unknown route is answered without invoking the wrapped handler.
ForwardSkipped(t, progs) ==
    /\ pc[t] = "forward"
    /\ Step(t, "return")
    /\ \E prog \in progs : ref' = [ref EXCEPT ![t] = Produced(prog)]
    /\ pc' = [pc EXCEPT ![t] = "done"]
    /\ UNCHANGED <<vhist, facadeVars, clean, issues, mu, req, route, iss, ret, tmp, rec, rw, calls, added,
                   handled, detected, validateVars>>

\* Route not found: c.next.ServeHTTP(rw, r); return
Forward(t, progs) ==
    /\ pc[t] = "forward"
    /\ Handle(t)
    /\ \E prog \in progs :
        /\ rw' = [rw EXCEPT ![t] = RunOnWriter(rw[t], prog)]
        /\ ref' = [ref EXCEPT ![t] = Produced(prog)]
    /\ calls' = [calls EXCEPT ![t] = calls[t] + 1]
    /\ pc' = [pc EXCEPT ![t] = "done"]
    /\ UNCHANGED <<vhist, facadeVars, clean, issues, mu, req, route, iss, ret, tmp, rec, added, handled,
                   detected, validateVars>>

\* Mutant: an invalid request ends the exchange.
ValidateRequestAbort(t) ==
    /\ pc[t] = "validateRequest"
    /\ Step(t, "validateRequest")
    /\ req' = [req EXCEPT ![t] = AfterValidateRequest(req[t], route[t])]
    /\ LET err == ValidateRequest(req[t], route[t])
       IN  IF err # NoError
           THEN CallAddIssue(t, Sprintf1(InvalidRequestPrefix, err), "done")
           ELSE /\ pc' = [pc EXCEPT ![t] = "call"]
                /\ UNCHANGED <<iss, ret, detected>>
    /\ UNCHANGED <<vhist, facadeVars, clean, issues, mu, route, tmp, rec, rw, ref, calls, added,
                   handled, validateVars>>

ValidateRequestStep(t) ==
    /\ pc[t] = "validateRequest"
    /\ Step(t, "validateRequest")
    /\ req' = [req EXCEPT ![t] = AfterValidateRequest(req[t], route[t])]
    /\ LET err == ValidateRequest(req[t], route[t])
       IN  IF err # NoError
           THEN CallAddIssue(t, Sprintf1(InvalidRequestPrefix, err), "call")
           ELSE /\ pc' = [pc EXCEPT ![t] = "call"]
                /\ UNCHANGED <<iss, ret, detected>>
    /\ UNCHANGED <<vhist, facadeVars, clean, issues, mu, route, tmp, rec, rw, ref, calls, added, handled,
                   validateVars>>

\* Mutant: the captured response is validated without being replayed first.
CallSkipsReplay(t, progs) ==
    /\ pc[t] = "call"
    /\ Handle(t)
    /\ \E prog \in progs :
        /\ rec' = [rec EXCEPT ![t] = RunOnRecorder(NewRecorder, prog)]
        /\ ref' = [ref EXCEPT ![t] = Produced(prog)]
        /\ clean' = (clean /\ ResponseConforms(route[t], Produced(prog)))
    /\ calls' = [calls EXCEPT ![t] = calls[t] + 1]
    /\ pc' = [pc EXCEPT ![t] = "validateResponse"]
    /\ UNCHANGED <<vhist, facadeVars, issues, mu, req, route, iss, ret, tmp, rw, added,
                   handled, detected, validateVars>>

\* recorder := httptest.NewRecorder(); c.next.ServeHTTP(recorder, r)
Call(t, progs) ==
    /\ pc[t] = "call"
    /\ Handle(t)
    /\ \E prog \in progs :
        /\ rec' = [rec EXCEPT ![t] = RunOnRecorder(NewRecorder, prog)]
        /\ ref' = [ref EXCEPT ![t] = Produced(prog)]
        /\ clean' = (clean /\ ResponseConforms(route[t], Produced(prog)))
    /\ calls' = [calls EXCEPT ![t] = calls[t] + 1]
    /\ pc' = [pc EXCEPT ![t] = "copyHeaders"]
    /\ UNCHANGED <<vhist, facadeVars, issues, mu, req, route, iss, ret, tmp, rw, added, handled,
                   detected, validateVars>>

\* for k, v := range recorder.HeaderMap { rw.Header()[k] = v }
CopiedHeader(to, from) ==
    [k \in DOMAIN to \cup DOMAIN from |-> IF k \in DOMAIN from THEN from[k] ELSE to[k]]

\* Mutant: the status is written before the headers are copied.
CopyHeadersAfterStatus(t) ==
    /\ pc[t] = "copyHeaders"
    /\ Step(t, "headers")
    /\ rw' = [rw EXCEPT ![t] =
                [WriterWriteHeader(rw[t], rec[t].Code) EXCEPT !.Header =
                    CopiedHeader(rw[t].Header, rec[t].HeaderMap)]]
    /\ pc' = [pc EXCEPT ![t] = "writeHeader"]
    /\ UNCHANGED <<vhist, facadeVars, clean, issues, mu, req, route, iss, ret, tmp, rec,
                   ref, calls, added, handled, detected, validateVars>>

CopyHeaders(t) ==
    /\ pc[t] = "copyHeaders"
    /\ Step(t, "headers")
    /\ rw' = [rw EXCEPT ![t].Header = CopiedHeader(rw[t].Header, rec[t].HeaderMap)]
    /\ pc' = [pc EXCEPT ![t] = "writeHeader"]
    /\ UNCHANGED <<vhist, facadeVars, clean, issues, mu, req, route, iss, ret, tmp, rec, ref, calls, added,
                   handled, detected, validateVars>>

\* rw.WriteHeader(recorder.Code)
ReplayStatus(t) ==
    /\ pc[t] = "writeHeader"
    /\ Step(t, "status")
    /\ rw' = [rw EXCEPT ![t] = WriterWriteHeader(rw[t], rec[t].Code)]
    /\ pc' = [pc EXCEPT ![t] = "writeBody"]
    /\ UNCHANGED <<vhist, facadeVars, clean, issues, mu, req, route, iss, ret, tmp, rec, ref, calls, added,
                   handled, detected, validateVars>>

\* bytes.NewBuffer(recorder.Body.Bytes()).WriteTo(rw): no Write for no bytes
ReplayBody(t) ==
    /\ pc[t] = "writeBody"
    /\ Step(t, "body")
    /\ rw' = [rw EXCEPT ![t] = IF Len(rec[t].Body) > 0
                               THEN WriterWrite(rw[t], rec[t].Body)
                               ELSE rw[t]]
    /\ pc' = [pc EXCEPT ![t] = "validateResponse"]
    /\ UNCHANGED <<vhist, facadeVars, clean, issues, mu, req, route, iss, ret, tmp, rec, ref, calls, added,
                   handled, detected, validateVars>>

\* Mutant: the result of ValidateResponse is dropped.
ValidateResponseNoLog(t) ==
    /\ pc[t] = "validateResponse"
    /\ IF Len(rec[t].Body) > 0 THEN Step(t, "validateResponse") ELSE UNCHANGED hist
    /\ pc' = [pc EXCEPT ![t] = "done"]
    /\ UNCHANGED <<vhist, facadeVars, clean, issues, mu, req, route, iss, ret, detected, tmp, rec, rw, ref,
                   calls, added, handled, validateVars>>

\* Mutant: the response is validated whether or not it has a body.
ValidateResponseUnguarded(t) ==
    /\ pc[t] = "validateResponse"
    /\ Step(t, "validateResponse")
    /\ LET err == ValidateResponse(route[t], rec[t].Code, rec[t].HeaderMap,
                                   rec[t].Body)
       IN  IF err # NoError
           THEN CallAddIssue(t, Sprintf1(InvalidResponsePrefix, err), "done")
           ELSE /\ pc' = [pc EXCEPT ![t] = "done"]
                /\ UNCHANGED <<iss, ret, detected>>
    /\ UNCHANGED <<vhist, facadeVars, clean, issues, mu, req, route, tmp, rec, rw, ref, calls, added,
                   handled, validateVars>>

\* Mutant: an issue is logged for every response with a body, before the
\* result of the validation is looked at.
ValidateResponseSpeculative(t) ==
    /\ pc[t] = "validateResponse"
    /\ IF Len(rec[t].Body) > 0 THEN Step(t, "validateResponse") ELSE UNCHANGED hist
    /\ LET err == ValidateResponse(route[t], rec[t].Code, rec[t].HeaderMap,
                                   rec[t].Body)
       IN  IF Len(rec[t].Body) > 0
           THEN CallAddIssue(t, Sprintf1(InvalidResponsePrefix, err), "done")
           ELSE /\ pc' = [pc EXCEPT ![t] = "done"]
                /\ UNCHANGED <<iss, ret, detected>>
    /\ UNCHANGED <<vhist, facadeVars, clean, issues, mu, req, route, tmp, rec, rw, ref,
                   calls, added, handled, validateVars>>

ValidateResponseStep(t) ==
    /\ pc[t] = "validateResponse"
    /\ IF Len(rec[t].Body) > 0 THEN Step(t, "validateResponse") ELSE UNCHANGED hist
    /\ LET err == ValidateResponse(route[t], rec[t].Code, rec[t].HeaderMap,
                                   rec[t].Body)
       IN  IF Len(rec[t].Body) > 0 /\ err # NoError
           THEN CallAddIssue(t, Sprintf1(InvalidResponsePrefix, err), "done")
           ELSE /\ pc' = [pc EXCEPT ![t] = "done"]
                /\ UNCHANGED <<iss, ret, detected>>
    /\ UNCHANGED <<vhist, facadeVars, clean, issues, mu, req, route, tmp, rec, rw, ref, calls, added, handled,
                   validateVars>>

\* ServeHTTP has returned: the server completes the response and the
\* exchange's locals are gone.
Finish(t) ==
    /\ pc[t] = "done"
    /\ hist' = [hist EXCEPT ![t] = NoHistory]
    /\ pc' = [pc EXCEPT ![t] = "idle"]
    /\ req' = [req EXCEPT ![t] = NoRequest]
    /\ route' = [route EXCEPT ![t] = ""]
    /\ rec' = [rec EXCEPT ![t] = NewRecorder]
    /\ rw' = [rw EXCEPT ![t] = NewWriter]
    /\ ref' = [ref EXCEPT ![t] = NoReceived]
    /\ calls' = [calls EXCEPT ![t] = 0]
    /\ added' = [added EXCEPT ![t] = <<>>]
    /\ UNCHANGED <<vhist, facadeVars, clean, issues, mu, iss, ret, tmp, handled, detected, validateVars>>

\* -------------------------------------------------------------- addIssue
\* Mutant: addIssue does not wait for the mutex.
LockNoWait(t) ==
    /\ pc[t] = "lock"
    /\ mu' = t
    /\ pc' = [pc EXCEPT ![t] = "append"]
    /\ UNCHANGED <<hist, vhist, facadeVars, clean, issues, exchangeVars, iss, ret, tmp, added, handled, detected,
                   validateVars>>

\* c.mu.Lock()
Lock(t) ==
    /\ pc[t] = "lock"
    /\ mu = 0
    /\ mu' = t
    /\ pc' = [pc EXCEPT ![t] = "append"]
    /\ UNCHANGED <<hist, vhist, facadeVars, clean, issues, exchangeVars, iss, ret, tmp, added, handled, detected,
                   validateVars>>

\* append(c.issues, ...) reads the slice ...
AppendRead(t) ==
    /\ pc[t] = "append"
    /\ tmp' = [tmp EXCEPT ![t] = issues]
    /\ pc' = [pc EXCEPT ![t] = "store"]
    /\ UNCHANGED <<hist, vhist, facadeVars, clean, issues, mu, exchangeVars, iss, ret, added, handled, detected,
                   validateVars>>

\* Mutant: the issue is put in front of the log.
AppendStoreInFront(t) ==
    /\ pc[t] = "store"
    /\ Step(t, "append")
    /\ issues' = <<iss[t]>> \o tmp[t]
    /\ added' = [added EXCEPT ![t] = Append(added[t], iss[t])]
    /\ tmp' = [tmp EXCEPT ![t] = <<>>]
    /\ pc' = [pc EXCEPT ![t] = "unlock"]
    /\ UNCHANGED <<vhist, facadeVars, clean, mu, exchangeVars, iss, ret, handled, detected, validateVars>>

\* Mutant: the issue is stored twice.
AppendStoreTwice(t) ==
    /\ pc[t] = "store"
    /\ Step(t, "append")
    /\ issues' = Append(Append(tmp[t], iss[t]), iss[t])
    /\ added' = [added EXCEPT ![t] = Append(Append(added[t], iss[t]), iss[t])]
    /\ tmp' = [tmp EXCEPT ![t] = <<>>]
    /\ pc' = [pc EXCEPT ![t] = "unlock"]
    /\ UNCHANGED <<vhist, facadeVars, clean, mu, exchangeVars, iss, ret, handled, detected, validateVars>>

\* ... and c.issues = stores the longer one.
AppendStore(t) ==
    /\ pc[t] = "store"
    /\ Step(t, "append")
    /\ issues' = Append(tmp[t], iss[t])
    /\ added' = [added EXCEPT ![t] = Append(added[t], iss[t])]
    /\ tmp' = [tmp EXCEPT ![t] = <<>>]
    /\ pc' = [pc EXCEPT ![t] = "unlock"]
    /\ UNCHANGED <<vhist, facadeVars, clean, mu, exchangeVars, iss, ret, handled, detected, validateVars>>

\* Mutant: addIssue returns without releasing the mutex.
UnlockKeepsMutex(t) ==
    /\ pc[t] = "unlock"
    /\ pc' = [pc EXCEPT ![t] = ret[t]]
    /\ iss' = [iss EXCEPT ![t] = NoIssue]
    /\ ret' = [ret EXCEPT ![t] = ""]
    /\ UNCHANGED <<hist, vhist, facadeVars, clean, issues, mu, exchangeVars, tmp, added,
                   handled, detected, validateVars>>

\* defer c.mu.Unlock()
Unlock(t) ==
    /\ pc[t] = "unlock"
    /\ mu' = 0
    /\ pc' = [pc EXCEPT ![t] = ret[t]]
    /\ iss' = [iss EXCEPT ![t] = NoIssue]
    /\ ret' = [ret EXCEPT ![t] = ""]
    /\ UNCHANGED <<hist, vhist, facadeVars, clean, issues, exchangeVars, tmp, added, handled, detected, validateVars>>

\* -------------------------------------------------------------- Validate
\* fmt.Sprintf("%v %v: %v", issue.Method, issue.URI, issue.Description)
Describe(issue) ==
    <<issue.Method, " ">> \o issue.URI \o <<": ">> \o issue.Description

\* Mutant: the elements are joined without the separator.
RECURSIVE JoinNoSep(_, _)
JoinNoSep(elems, sep) ==
    IF Len(elems) = 0 THEN <<>>
    ELSE elems[1] \o JoinNoSep(Tail(elems), sep)

\* strings.Join(elems, sep)
RECURSIVE Join(_, _)
Join(elems, sep) ==
    IF Len(elems) = 0 THEN <<>>
    ELSE IF Len(elems) = 1 THEN elems[1]
    ELSE elems[1] \o <<sep>> \o Join(Tail(elems), sep)

NilResult == [kind |-> "nil", text |-> <<>>]
PanicResult == [kind |-> "panic", text |-> <<"index out of range">>]
ErrorResult(text) == [kind |-> "error", text |-> text]

\* A caller invokes c.Validate().
VCall ==
    /\ vpc = "idle"
    /\ vpc' = "check"
    /\ vhist' = [vhist EXCEPT !.log = issues]
    /\ UNCHANGED <<hist, facadeVars, clean, issues, mu, pc, exchangeVars, iss, ret, tmp, added, handled,
                   detected, vlen, vrng, vi, vdesc, vres>>

\* Mutant: the empty log is not treated apart.
VCheckNoEmptyCase ==
    /\ vpc = "check"
    /\ vpc' = "make"
    /\ UNCHANGED <<hist, vhist, facadeVars, clean, issues, mu, pc, exchangeVars, iss, ret, tmp, added, handled,
                   detected, vlen, vrng, vi, vdesc, vres>>

\* if len(c.issues) == 0 { return nil }
VCheck ==
    /\ vpc = "check"
    /\ IF Len(issues) = 0
       THEN vpc' = "returned" /\ vres' = NilResult
       ELSE vpc' = "make" /\ UNCHANGED vres
    /\ UNCHANGED <<hist, vhist, facadeVars, clean, issues, mu, pc, exchangeVars, iss, ret, tmp, added, handled,
                   detected, vlen, vrng, vi, vdesc>>

\* descriptions := make([]string, len(c.issues))
VMake ==
    /\ vpc = "make"
    /\ vlen' = Len(issues)
    /\ vdesc' = [i \in 1..Len(issues) |-> <<>>]
    /\ vpc' = "range"
    /\ UNCHANGED <<hist, vhist, facadeVars, clean, issues, mu, pc, exchangeVars, iss, ret, tmp, added, handled,
                   detected, vrng, vi, vres>>

\* c.issues as a read without c.mu may see it: the slice, or, while an append
\* is storing the longer slice, the new length over the old array, whose last
\* element is not the appended issue.
RacyIssues ==
    {issues} \cup { Append(tmp[t], NoIssue) : t \in { u \in Threads : pc[u] = "store" } }

\* for i, issue := range c.issues: the range expression is evaluated once
VRange ==
    /\ vpc = "range"
    /\ \E read \in RacyIssues : vrng' = read
    /\ vi' = 0
    /\ vpc' = "loop"
    /\ UNCHANGED <<hist, vhist, facadeVars, clean, issues, mu, pc, exchangeVars, iss, ret, tmp, added, handled,
                   detected, vlen, vdesc, vres>>

\* descriptions[i] = fmt.Sprintf(...)
VLoop ==
    /\ vpc = "loop"
    /\ IF vi < Len(vrng)
       THEN IF vi >= vlen
            THEN /\ vres' = PanicResult
                 /\ vpc' = "returned"
                 /\ UNCHANGED <<vi, vdesc>>
            ELSE /\ vdesc' = [vdesc EXCEPT ![vi + 1] = Describe(vrng[vi + 1])]
                 /\ vi' = vi + 1
                 /\ UNCHANGED <<vpc, vres>>
       ELSE /\ vpc' = "join"
            /\ UNCHANGED <<vi, vdesc, vres>>
    /\ UNCHANGED <<hist, vhist, facadeVars, clean, issues, mu, pc, exchangeVars, iss, ret, tmp, added, handled,
                   detected, vlen, vrng>>

\* Mutant: Validate empties the log it reports.
VReturnConsumes ==
    /\ vpc = "join"
    /\ vres' = ErrorResult(<<ValidateHeader>> \o Join(vdesc, ValidateDelimiter))
    /\ vpc' = "returned"
    /\ issues' = <<>>
    /\ UNCHANGED <<hist, vhist, facadeVars, clean, mu, pc, exchangeVars, iss, ret, tmp,
                   added, handled, detected, vlen, vrng, vi, vdesc>>

\* return fmt.Errorf("Errors were found ...:\n%v", strings.Join(descriptions, "\n---\n"))
VReturn ==
    /\ vpc = "join"
    /\ vres' = ErrorResult(<<ValidateHeader>> \o Join(vdesc, ValidateDelimiter))
    /\ vpc' = "returned"
    /\ UNCHANGED <<hist, vhist, facadeVars, clean, issues, mu, pc, exchangeVars, iss, ret, tmp, added, handled,
                   detected, vlen, vrng, vi, vdesc>>

\* The caller has its result; Validate's locals are gone.  The history keeps
\* what kept says of this call.
VReturned(kept) ==
    /\ vpc = "returned"
    /\ vpc' = "idle"
    /\ vlen' = 0
    /\ vrng' = <<>>
    /\ vi' = 0
    /\ vdesc' = <<>>
    /\ vres' = NoResult
    /\ vhist' = kept
    /\ UNCHANGED <<hist, facadeVars, clean, issues, mu, pc, exchangeVars, iss, ret, tmp, added, handled,
                   detected>>

VDone == VReturned(NoValidateHistory)

\* The same, the caller remembering the result and the log it was given for.
VDoneRemembered ==
    VReturned([log |-> <<>>, last |-> vres, lastLog |-> issues])

\* ------------------------------------------------------- Checker facade
\* Everything that belongs to the one Middleware the steps above run on.
middlewareVars == <<issues, mu, pc, req, route, iss, ret, tmp, rec, rw, ref, calls,
                    added, detected, clean, validateVars, hist, vhist>>

\* c.router.FindRoute(r.Method, r.URL) on the router a Middleware holds.
FindRouteIn(router, method, url) ==
    IF url.Path \notin router.ServerPaths
    THEN [route |-> "", err |-> <<"Does not match any server">>]
    ELSE IF method \notin router.Operations
    THEN [route |-> "", err |-> <<"Path doesn't support the HTTP method">>]
    ELSE [route |-> method, err |-> NoError]

\* addIssue on the log of the Middleware mw.
AddIssueTo(mw, r, description) ==
    [mw EXCEPT !.issues = Append(@, [Method |-> r.Method,
                                     URI |-> URLString(r.URL),
                                     Description |-> description])]

\* One whole ServeHTTP of the Middleware mw on the request r: the Middleware
\* it leaves behind.
ServeHTTP(mw, r) ==
    LET found == FindRouteIn(mw.router, r.Method, r.URL)
    IN  IF found.err # NoError
        THEN AddIssueTo(mw, r, Sprintf1(RouteNotFoundPrefix, found.err))
        ELSE LET reqErr == ValidateRequest(r, found.route)
                 checked == IF reqErr # NoError
                            THEN AddIssueTo(mw, r, Sprintf1(InvalidRequestPrefix, reqErr))
                            ELSE mw
                 recorder == RunOnRecorder(NewRecorder, mw.next)
                 resErr == ValidateResponse(found.route, recorder.Code,
                                            recorder.HeaderMap, recorder.Body)
             IN  IF Len(recorder.Body) > 0 /\ resErr # NoError
                 THEN AddIssueTo(checked, r, Sprintf1(InvalidResponsePrefix, resErr))
                 ELSE checked

\* One whole Validate of the Middleware mw, no exchange running.
ValidateOf(mw) ==
    IF Len(mw.issues) = 0 THEN NilResult
    ELSE ErrorResult(<<ValidateHeader>>
            \o Join([i \in 1..Len(mw.issues) |-> Describe(mw.issues[i])],
                    ValidateDelimiter))

\* Mutant: the new Middleware takes over the log of the first one minted.
MintSharesLog ==
    /\ Len(mws) < MaxMiddlewares
    /\ \E next \in TestHandlers :
        mws' = Append(mws, [router |-> checker.router, next |-> next,
                            issues |-> IF Len(mws) > 0 THEN mws[1].issues ELSE <<>>])
    /\ served' = Append(served, 0)
    /\ UNCHANGED <<checker, handled, middlewareVars>>

\* c.Middleware(next): &Middleware{router: c.router, next: next}
Mint ==
    /\ Len(mws) < MaxMiddlewares
    /\ \E next \in TestHandlers :
        mws' = Append(mws, [router |-> checker.router, next |-> next,
                            issues |-> <<>>])
    /\ served' = Append(served, 0)
    /\ UNCHANGED <<checker, handled, middlewareVars>>

\* The m-th minted Middleware serves one exchange.
Serve(m) ==
    /\ handled < MaxExchanges
    /\ \E r \in TestRequests :
        mws' = [mws EXCEPT ![m] = ServeHTTP(mws[m], r)]
    /\ served' = [served EXCEPT ![m] = @ + 1]
    /\ handled' = handled + 1
    /\ UNCHANGED <<checker, middlewareVars>>

\* -------------------------------------------------------- specifications
\* Nothing else is running beside thread t.
Alone(t) == vpc = "idle" /\ \A u \in Threads \ {t} : pc[u] = "idle"
NoExchange == \A u \in Threads : pc[u] = "idle"

\* The server takes one exchange at a time, as the test server's client does.
SeqBegin(t) == Alone(t) /\ Begin(t, Requests)
SeqForward(t) == Forward(t, Programs)
SeqCall(t) == Call(t, Programs)
SeqVCall == NoExchange /\ VCall

\* Exchanges and Validate run concurrently; handlers are those of the tests.
ConcBegin(t) == Begin(t, TestRequests)
ConcForward(t) == Forward(t, TestHandlers)
ConcCall(t) == Call(t, TestHandlers)

Next ==
    \/ \E t \in Threads :
        \/ SeqBegin(t)
        \/ FindRouteStep(t)
        \/ SeqForward(t)
        \/ ValidateRequestStep(t)
        \/ SeqCall(t)
        \/ CopyHeaders(t)
        \/ ReplayStatus(t)
        \/ ReplayBody(t)
        \/ ValidateResponseStep(t)
        \/ Finish(t)
        \/ Lock(t)
        \/ AppendRead(t)
        \/ AppendStore(t)
        \/ Unlock(t)
    \/ SeqVCall
    \/ VCheck
    \/ VMake
    \/ VRange
    \/ VLoop
    \/ VReturn
    \/ VDone

Spec == Init /\ [][Next]_vars

NextConc ==
    \/ \E t \in Threads :
        \/ ConcBegin(t)
        \/ FindRouteStep(t)
        \/ ConcForward(t)
        \/ ValidateRequestStep(t)
        \/ ConcCall(t)
        \/ CopyHeaders(t)
        \/ ReplayStatus(t)
        \/ ReplayBody(t)
        \/ ValidateResponseStep(t)
        \/ Finish(t)
        \/ Lock(t)
        \/ AppendRead(t)
        \/ AppendStore(t)
        \/ Unlock(t)

SpecConc == Init /\ [][NextConc]_vars

\* Validate is called while exchanges are in flight.
NextVal ==
    \/ NextConc
    \/ VCall
    \/ VCheck
    \/ VMake
    \/ VRange
    \/ VLoop
    \/ VReturn
    \/ VDone

SpecVal == Init /\ [][NextVal]_vars

\* Requests and handlers that take every path through addIssue: no issue,
\* one issue, two issues.
FairRequests ==
    { r \in TestRequests : r.Method = "GET" \/ r.ContentType = "" }
FairHandlers == { <<WriteHeaderOp(200)>>, <<WriteHeaderOp(200), WriteOp>> }

FairBegin(t) == Begin(t, FairRequests)
FairForward(t) == Forward(t, FairHandlers)
FairCall(t) == Call(t, FairHandlers)

\* Every step of thread t but the arrival of a request.
Progress(t) ==
    \/ FindRouteStep(t)
    \/ FairForward(t)
    \/ ValidateRequestStep(t)
    \/ FairCall(t)
    \/ CopyHeaders(t)
    \/ ReplayStatus(t)
    \/ ReplayBody(t)
    \/ ValidateResponseStep(t)
    \/ Finish(t)
    \/ Lock(t)
    \/ AppendRead(t)
    \/ AppendStore(t)
    \/ Unlock(t)

NextFair == \E t \in Threads : FairBegin(t) \/ Progress(t)

\* Concurrent exchanges on goroutines that are scheduled fairly, with a
\* resolver, an engine and a wrapped handler that return.
SpecFair == Init /\ [][NextFair]_vars /\ \A t \in Threads : WF_vars(Progress(t))

\* One exchange at a time, those of the tests, and a caller of Validate that
\* compares each result with the one before.
IdemBegin(t) == Alone(t) /\ Begin(t, TestRequests)

NextIdem ==
    \/ \E t \in Threads :
        \/ IdemBegin(t)
        \/ FindRouteStep(t)
        \/ ConcForward(t)
        \/ ValidateRequestStep(t)
        \/ ConcCall(t)
        \/ CopyHeaders(t)
        \/ ReplayStatus(t)
        \/ ReplayBody(t)
        \/ ValidateResponseStep(t)
        \/ Finish(t)
        \/ Lock(t)
        \/ AppendRead(t)
        \/ AppendStore(t)
        \/ Unlock(t)
    \/ SeqVCall
    \/ VCheck
    \/ VMake
    \/ VRange
    \/ VLoop
    \/ VReturn
    \/ VDoneRemembered

SpecIdem == Init /\ [][NextIdem]_vars

\* One Checker mints Middlewares and each serves exchanges, one at a time.
NextChecker ==
    \/ Mint
    \/ \E m \in 1..Len(mws) : Serve(m)

SpecChecker == Init /\ [][NextChecker]_vars

\* ================================================================ properties
HasPrefix(issue, prefix) ==
    Len(issue.Description) > 0 /\ issue.Description[1] = prefix

CountPrefix(log, prefix) ==
    Cardinality({ i \in 1..Len(log) : HasPrefix(log[i], prefix) })

InLog(issue) == \E i \in 1..Len(issues) : issues[i] = issue

Done(t) == pc[t] = "done"
Resolved(t) == FindRoute(req[t].Method, req[t].URL).err = NoError
RequestFails(t) == ValidateRequest(req[t], route[t]) # NoError
CapturedFails(t) ==
    ValidateResponse(route[t], rec[t].Code, rec[t].HeaderMap, rec[t].Body) # NoError

\* What the real caller has received when ServeHTTP has returned.
CallerReceived(t) == Received(WriterFinish(rw[t]))

\* C1: once ServeHTTP has returned, the status code, the headers and the body
\* the real caller received are exactly those the wrapped handler produced,
\* on the route-found and on the route-not-found path.
CE_C1 == \A t \in Threads : Done(t) => CallerReceived(t) = ref[t]

\* C2: the wrapped handler is invoked exactly once per exchange: never twice
\* at any point, and once when ServeHTTP has returned.
Thm_C2 ==
    \A t \in Threads : calls[t] <= 1 /\ (Done(t) => calls[t] = 1)

Witness_C2 ==
    \E t \in Threads : Done(t) /\ calls[t] = 1 /\ Len(added[t]) = 2

\* C3: an exchange whose route does not resolve appends exactly one issue,
\* "Route not found in specification: ..." with the request's method and URI;
\* the handler ran once, its response reached the caller unchanged, nothing was
\* recorded and no request or response issue was logged.
Thm_C3 ==
    \A t \in Threads :
        Done(t) /\ ~Resolved(t) =>
            /\ Len(added[t]) = 1
            /\ HasPrefix(added[t][1], RouteNotFoundPrefix)
            /\ added[t][1].Method = req[t].Method
            /\ added[t][1].URI = URLString(req[t].URL)
            /\ InLog(added[t][1])
            /\ calls[t] = 1
            /\ CallerReceived(t) = ref[t]
            /\ rec[t] = NewRecorder

Witness_C3 ==
    \E t \in Threads :
        /\ Done(t) /\ ~Resolved(t)
        /\ ref[t].Body # <<>> /\ ref[t].Status = 201
        /\ CountPrefix(issues, RouteNotFoundPrefix) = 1

\* C4: an exchange whose route resolves and whose request fails validation
\* appends exactly one "Invalid request: ..." issue and is not aborted: the
\* handler ran once and its status and body reached the caller.
Thm_C4 ==
    \A t \in Threads :
        Done(t) /\ Resolved(t) /\ RequestFails(t) =>
            /\ CountPrefix(added[t], InvalidRequestPrefix) = 1
            /\ \E i \in 1..Len(added[t]) :
                /\ HasPrefix(added[t][i], InvalidRequestPrefix)
                /\ InLog(added[t][i])
            /\ calls[t] = 1
            /\ CallerReceived(t).Status = ref[t].Status
            /\ CallerReceived(t).Body = ref[t].Body

Witness_C4 ==
    \E t \in Threads :
        /\ Done(t) /\ Resolved(t) /\ RequestFails(t)
        /\ calls[t] = 1 /\ ref[t].Body # <<>>
        /\ CountPrefix(added[t], InvalidRequestPrefix) = 1

\* C5: an exchange whose route resolves and whose captured response has a
\* non-empty body appends exactly one "Invalid response: ..." issue when the
\* response fails validation and none when it passes.
Thm_C5 ==
    \A t \in Threads :
        Done(t) /\ Resolved(t) /\ Len(rec[t].Body) > 0 =>
            CountPrefix(added[t], InvalidResponsePrefix)
                = IF CapturedFails(t) THEN 1 ELSE 0

Witness_C5 ==
    \E t \in Threads :
        /\ Done(t) /\ Resolved(t) /\ Len(rec[t].Body) > 0 /\ CapturedFails(t)
        /\ CountPrefix(added[t], InvalidResponsePrefix) = 1
        /\ CountPrefix(issues, InvalidResponsePrefix) = 2

\* C6: an exchange whose handler produces an empty body never appends an
\* "Invalid response: ..." issue, whatever the status and headers.
Thm_C6 ==
    \A t \in Threads :
        Done(t) /\ ref[t].Body = <<>> =>
            CountPrefix(added[t], InvalidResponsePrefix) = 0

Witness_C6 ==
    \E t \in Threads :
        /\ Done(t) /\ Resolved(t) /\ ref[t].Body = <<>>
        /\ CapturedFails(t)
        /\ rec[t].Code = 201

\* C7: while every exchange so far resolved and had a conforming request and
\* response, the log is empty and Validate returns nil.
Thm_C7 ==
    clean => issues = <<>> /\ (vpc = "returned" => vres = NilResult)

Witness_C7 ==
    clean /\ handled >= 2 /\ NoExchange /\ vpc = "returned" /\ vres = NilResult

\* "<method> <uri>: <description>"
Rendered(issue) ==
    <<issue.Method, " ">> \o issue.URI \o <<": ">> \o issue.Description

\* The log's issues, rendered, in log order, with the delimiter between them.
RECURSIVE Concatenated(_)
Concatenated(log) ==
    IF Len(log) = 0 THEN <<>>
    ELSE IF Len(log) = 1 THEN Rendered(log[1])
    ELSE Concatenated(SubSeq(log, 1, Len(log) - 1))
            \o <<ValidateDelimiter>> \o Rendered(log[Len(log)])

\* C8 as stated: Validate returns nil iff the log is empty, else an error whose
\* text is the concatenation of the rendered issues.
CE_C8 ==
    vpc = "returned" =>
        IF issues = <<>> THEN vres = NilResult
        ELSE vres = ErrorResult(Concatenated(issues))

\* C8 as amended: Validate returns nil iff the log is empty, else an error
\* whose text is the fixed line "Errors were found validating the API
\* specification:\n" followed by the concatenation of the rendered issues, one
\* per issue, in log order, separated by "\n---\n".
Thm_C8 ==
    vpc = "returned" =>
        IF issues = <<>> THEN vres = NilResult
        ELSE vres = ErrorResult(<<ValidateHeader>> \o Concatenated(issues))

Witness_C8 ==
    /\ vpc = "returned" /\ vres.kind = "error"
    /\ Len(issues) >= 2 /\ issues[1] # issues[2]

\* Issues detected whose append has not stored them yet.
RECURSIVE PendingUpTo(_)
PendingUpTo(n) ==
    IF n = 0 THEN EmptyBag
    ELSE PendingUpTo(n - 1)
            (+) IF pc[n] \in {"lock", "append", "store"}
                THEN SetToBag({iss[n]}) ELSE EmptyBag

RECURSIVE SeqToBag(_)
SeqToBag(log) ==
    IF log = <<>> THEN EmptyBag
    ELSE SeqToBag(Tail(log)) (+) SetToBag({Head(log)})

Mutating == { t \in Threads : pc[t] \in {"append", "store", "unlock"} }

\* C9: under any interleaving of concurrent exchanges the log holds exactly
\* the issues detected (those whose append is still pending apart): none lost,
\* none duplicated, none torn; and at most one exchange is inside the append.
Thm_C9 ==
    /\ Cardinality(Mutating) <= 1
    /\ \A t \in Mutating : mu = t
    /\ SeqToBag(issues) (+) PendingUpTo(NumThreads) = detected

Witness_C9 ==
    \E t, u \in Threads :
        /\ t # u
        /\ pc[t] = "lock" /\ pc[u] = "store"
        /\ Len(issues) >= 1

\* C10 as stated: the log is never longer than the number of exchanges.
CE_C10 == Len(issues) <= handled

\* C10 as amended: N exchanges produce at most 2N issues, each exchange at
\* most two (one for its route or request, one for its response).
Thm_C10 ==
    /\ Len(issues) <= 2 * handled
    /\ \A t \in Threads : Len(added[t]) <= 2

Witness_C10 ==
    /\ handled >= 2 /\ Len(issues) > handled
    /\ \E t, u \in Threads : t # u /\ added[t] # <<>> /\ added[u] # <<>>

\* What Validate returns for a log read at one single point in time.
ResultOf(log) ==
    IF log = <<>> THEN NilResult
    ELSE ErrorResult(<<ValidateHeader>> \o Concatenated(log))

\* C11: Validate run concurrently with appending exchanges completes without
\* failure and its result describes the log as it was at one single point in
\* time, a prefix of the log.
CE_C11 ==
    vpc = "returned" =>
        /\ vres.kind # "panic"
        /\ \E k \in 0..Len(issues) : vres = ResultOf(SubSeq(issues, 1, k))

IsPrefix(a, b) == Len(a) <= Len(b) /\ SubSeq(b, 1, Len(a)) = a

\* The orders of steps of an exchange whose route resolves.
ResolvedOrders ==
    { <<"findRoute", "validateRequest">> \o a
        \o <<"handler", "headers", "status", "body">> \o b :
        a \in {<<>>, <<"append">>},
        b \in {<<>>, <<"validateResponse">>, <<"validateResponse", "append">>} }

\* C13: every minted Middleware holds the Checker's one resolver, which no
\* exchange changes; a Middleware starts with an empty log of its own, and an
\* exchange served through one Middleware changes neither the log nor the
\* Validate result of any other.
Thm_C13 ==
    /\ [](\A m \in 1..Len(mws) :
            /\ mws[m].router = checker.router
            /\ checker.router = PetStoreRouter
            /\ Len(mws[m].issues) <= 2 * served[m]
            /\ served[m] = 0 => ValidateOf(mws[m]) = NilResult)
    /\ [][\A m \in 1..Len(mws) :
            served'[m] = served[m] =>
                /\ mws'[m].issues = mws[m].issues
                /\ ValidateOf(mws'[m]) = ValidateOf(mws[m])]_vars

Witness_C13 ==
    \E m, n \in 1..Len(mws) :
        /\ served[m] > 0 /\ Len(mws[m].issues) > 0
        /\ served[n] = 0 /\ mws[n].issues = <<>>

\* C14: in an exchange whose route resolves, request validation and the append
\* of its issue come before the handler, the handler before the replay, the
\* replay before response validation, and the response issue last.
Thm_C14 ==
    \A t \in Threads :
        pc[t] # "idle" /\ Resolved(t) =>
            /\ \E order \in ResolvedOrders : IsPrefix(hist[t].trace, order)
            /\ Done(t) => hist[t].trace \in ResolvedOrders

Witness_C14 ==
    \E t \in Threads :
        /\ Done(t) /\ Resolved(t)
        /\ hist[t].trace = <<"findRoute", "validateRequest", "append", "handler",
                             "headers", "status", "body", "validateResponse", "append">>

ReplaySteps(t) ==
    SelectSeq(hist[t].trace,
              LAMBDA e : e \in {"handler", "headers", "status", "body"})

\* C15: on the route-found path nothing is written to the real caller before
\* the wrapped handler has returned; then all captured headers, the captured
\* status and the captured body are written in this order, and no header is
\* written after the status.
Thm_C15 ==
    \A t \in Threads :
        pc[t] # "idle" /\ Resolved(t) =>
            /\ pc[t] \notin {"writeHeader", "writeBody", "validateResponse", "done"}
                   /\ ~(pc[t] \in {"lock", "append", "store", "unlock"} /\ ret[t] = "done")
                   => rw[t] = NewWriter
            /\ IsPrefix(ReplaySteps(t), <<"handler", "headers", "status", "body">>)
            /\ Done(t) =>
                /\ ReplaySteps(t) = <<"handler", "headers", "status", "body">>
                /\ rw[t].Header = rec[t].HeaderMap
                /\ rw[t].Status = rec[t].Code
                /\ rw[t].Body = rec[t].Body
                /\ \A k \in DOMAIN rw[t].Header :
                    k \in DOMAIN rw[t].Sent /\ rw[t].Sent[k] = rw[t].Header[k]

Witness_C15 ==
    \E t \in Threads :
        /\ Done(t) /\ Resolved(t)
        /\ rec[t].HeaderMap # EmptyHeader /\ rec[t].Body # <<>> /\ rec[t].Code = 201
        /\ rw[t].Sent = rec[t].HeaderMap

\* C16: the log is append-only: every step of ServeHTTP, addIssue and Validate
\* leaves the old log as a prefix of the new one.
Thm_C16 == [][IsPrefix(issues, issues')]_vars

Witness_C16 ==
    /\ Len(issues) >= 3
    /\ vpc = "returned" /\ vres.kind = "error"

\* The validation step that produced the issue has completed with the failure
\* the issue describes.
Justified(t, issue) ==
    LET found == FindRoute(hist[t].orig.Method, hist[t].orig.URL)
    IN  \/ /\ found.err # NoError
           /\ issue.Description = Sprintf1(RouteNotFoundPrefix, found.err)
        \/ /\ found.err = NoError
           /\ "validateRequest" \in { hist[t].trace[i] : i \in 1..Len(hist[t].trace) }
           /\ ValidateRequest(hist[t].orig, found.route) # NoError
           /\ issue.Description
                = Sprintf1(InvalidRequestPrefix, ValidateRequest(hist[t].orig, found.route))
        \/ /\ found.err = NoError
           /\ "validateResponse" \in { hist[t].trace[i] : i \in 1..Len(hist[t].trace) }
           /\ CapturedFails(t)
           /\ issue.Description
                = Sprintf1(InvalidResponsePrefix,
                           ValidateResponse(route[t], rec[t].Code, rec[t].HeaderMap,
                                            rec[t].Body))

NumPending == Cardinality({ t \in Threads : pc[t] \in {"lock", "append", "store"} })

\* Every issue in the log belongs to exactly one exchange and was appended
\* after the validation step that produced it had failed.
IssuesOfExchanges ==
    /\ BagCardinality(detected) = Len(issues) + NumPending
    /\ \A t \in Threads :
        /\ \A i \in 1..Len(added[t]) :
            /\ InLog(added[t][i])
            /\ added[t][i].Method = hist[t].orig.Method
            /\ added[t][i].URI = URLString(hist[t].orig.URL)
            /\ Justified(t, added[t][i])
        /\ \A i \in 1..Len(hist[t].trace) :
            hist[t].trace[i] = "append" =>
                /\ i > 1
                /\ hist[t].trace[i - 1]
                     \in {"findRoute", "validateRequest", "validateResponse"}

\* C17 as stated: every issue in the log corresponds to exactly one completed
\* exchange and was appended only after the validation step that produced it
\* had completed with a failure.
CE_C17 ==
    /\ IssuesOfExchanges
    /\ \A t \in Threads : pc[t] \notin {"idle", "done"} => added[t] = <<>>

\* C17 as amended: every issue in the log corresponds to exactly one exchange,
\* completed or still in flight, and was appended only after the validation
\* step that produced it had completed with a failure.
Thm_C17 ==
    /\ IssuesOfExchanges
    /\ \A t \in Threads : added[t] # <<>> => pc[t] # "idle"

Witness_C17 ==
    \E t \in Threads :
        /\ pc[t] = "validateResponse" /\ Len(added[t]) = 1
        /\ HasPrefix(added[t][1], InvalidRequestPrefix)

\* C18: one exchange appends at most two issues; a route-not-found issue is
\* the only issue of its exchange; a request issue comes before the response
\* issue of the same exchange in the log.
Thm_C18 ==
    \A t \in Threads :
        /\ Len(added[t]) <= 2
        /\ CountPrefix(added[t], RouteNotFoundPrefix) >= 1 => Len(added[t]) = 1
        /\ Len(added[t]) = 2 =>
            /\ HasPrefix(added[t][1], InvalidRequestPrefix)
            /\ HasPrefix(added[t][2], InvalidResponsePrefix)
            /\ \E i, j \in 1..Len(issues) :
                i < j /\ issues[i] = added[t][1] /\ issues[j] = added[t][2]

Witness_C18 ==
    \E t \in Threads :
        /\ Done(t) /\ Len(added[t]) = 2
        /\ Len(issues) >= 3
        /\ HasPrefix(issues[2], RouteNotFoundPrefix)

\* C19: Validate leaves the log unchanged; a second call with no append in
\* between returns the same result; what an earlier call reported is still in
\* the log at every later call.
Thm_C19 ==
    /\ vpc # "idle" => issues = vhist.log
    /\ IsPrefix(vhist.lastLog, issues)
    /\ vpc = "returned" /\ vhist.last.kind # "none" /\ vhist.lastLog = issues
           => vres = vhist.last

Witness_C19 ==
    /\ vpc = "returned" /\ vhist.last.kind = "error"
    /\ vhist.lastLog = issues /\ vres = vhist.last

\* C20: the mutex is held only inside addIssue, never while the resolver, the
\* engine or the wrapped handler runs, and under fair scheduling the
\* middleware is over and over again in a state where no exchange is in
\* flight: an exchange that was in flight has then completed, and a thread
\* that waited for the log has then got it.
Thm_C20 ==
    /\ [](\A t \in Threads :
            /\ mu = t => pc[t] \in {"append", "store", "unlock"}
            /\ pc[t] \in {"append", "store", "unlock"} => mu = t)
    /\ []<>(\A t \in Threads : pc[t] \in {"idle", "done"})

Witness_C20 ==
    \E t, u \in Threads :
        /\ pc[t] = "lock" /\ mu = u /\ u # t
        /\ pc[u] = "unlock"

====
